---------------------------- MODULE Spec2Model ----------------------------
(***************************************************************************)
(* Batch HLS decrypter (batchdecrypt.py): task discovery, the per-task     *)
(* pipeline (parse, concurrent download, sequential decrypt, file list,    *)
(* mux) and the run-level driver with its final cleanup.                   *)
(*                                                                         *)
(* File names are sequences of one-character strings, so that the regular  *)
(* expression of find_tasks and the integer conversion of the sort key are *)
(* computed and not assumed.                                               *)
(***************************************************************************)
EXTENDS Integers, Sequences, FiniteSets, TLC

(***************************************************************************)
(* Bounds of the model.                                                    *)
(***************************************************************************)
\* at most this many *.m3u8 files in the input directory (Spec)
MaxManifests == 2
\* at most this many segment lines in one manifest (Spec)
RunSegs == 2
\* at most this many segment lines in one manifest (SpecPool)
MaxSegs == 3

\* batchdecrypt.py:14 sets max_workers = 50.  The model scales the pool to 2
\* workers so that a manifest of MaxSegs segments saturates it.
max_workers == 2

(***************************************************************************)
(* Input file names (without the .m3u8 / .bin extension).                  *)
(***************************************************************************)
Stems ==
    { <<"a", "1", ".", "9">>,
      <<"a", "1", ".", "1", "0">>,
      <<"b", "1", ".", "9">>,
      <<"a", "2">> }

Digits == {"0", "1", "2", "3", "4", "5", "6", "7", "8", "9"}

DigitVal(c) ==
    CASE c = "0" -> 0
      [] c = "1" -> 1
      [] c = "2" -> 2
      [] c = "3" -> 3
      [] c = "4" -> 4
      [] c = "5" -> 5
      [] c = "6" -> 6
      [] c = "7" -> 7
      [] c = "8" -> 8
      [] c = "9" -> 9

\* int(n) for a string of decimal digits
RECURSIVE ToInt(_)
ToInt(s) ==
    IF Len(s) = 0 THEN 0
    ELSE 10 * ToInt(SubSeq(s, 1, Len(s) - 1)) + DigitVal(s[Len(s)])

IsDigits(s) == Len(s) >= 1 /\ \A j \in 1..Len(s) : s[j] \in Digits

\* s matches \d+\.\d+ as a whole
IsVersion(s) ==
    \E d \in 1..Len(s) :
        /\ s[d] = "."
        /\ IsDigits(SubSeq(s, 1, d - 1))
        /\ IsDigits(SubSeq(s, d + 1, Len(s)))

\* re.match(r'^(.+?)(\d+\.\d+)\.m3u8$', filename): the lengths b of group 1
\* for which the rest of the stem is a version
BaseLens(stem) ==
    { b \in 1..Len(stem) : IsVersion(SubSeq(stem, b + 1, Len(stem))) }

Matches(stem) == BaseLens(stem) # {}

\* (.+?) is lazy: the shortest base wins
BaseLen(stem) == CHOOSE b \in BaseLens(stem) : \A c \in BaseLens(stem) : b <= c

base_name(stem) == SubSeq(stem, 1, BaseLen(stem))

version(stem) == SubSeq(stem, BaseLen(stem) + 1, Len(stem))

\* version.split('.')
Split(v) ==
    LET d == CHOOSE j \in 1..Len(v) : v[j] = "."
    IN  << SubSeq(v, 1, d - 1), SubSeq(v, d + 1, Len(v)) >>

\* mutant of SortKey: key=lambda x: float(x["version"]), in hundredths
SortKeyFloat(v) ==
    << ToInt(Split(v)[1]),
       IF Len(Split(v)[2]) = 1 THEN 10 * ToInt(Split(v)[2]) ELSE ToInt(Split(v)[2]) >>

\* key=lambda x: [int(n) for n in x["version"].split('.')]
SortKey(v) == << ToInt(Split(v)[1]), ToInt(Split(v)[2]) >>

\* Python's list comparison of two sort keys
KeyLess(a, b) == a[1] < b[1] \/ (a[1] = b[1] /\ a[2] < b[2])

downloaded_dir(v) == <<"downloaded_">> \o v

decrypted_dir(v) == <<"decrypted_">> \o v

\* the dict appended by find_tasks
Task(stem) ==
    [ base_name      |-> base_name(stem),
      version        |-> version(stem),
      output_file    |-> base_name(stem) \o <<" ">> \o version(stem),
      playlist       |-> stem,
      key            |-> stem,
      downloaded_dir |-> downloaded_dir(version(stem)),
      decrypted_dir  |-> decrypted_dir(version(stem)) ]

\* sorted() is stable: t goes after every element whose key is not greater
RECURSIVE Insert(_, _)
Insert(sorted, t) ==
    IF Len(sorted) = 0 THEN << t >>
    ELSE IF KeyLess(SortKey(t.version), SortKey(sorted[Len(sorted)].version))
         THEN Append(Insert(SubSeq(sorted, 1, Len(sorted) - 1), t),
                     sorted[Len(sorted)])
         ELSE Append(sorted, t)

RECURSIVE Sorted(_)
Sorted(ts) ==
    IF Len(ts) = 0 THEN << >>
    ELSE Insert(Sorted(SubSeq(ts, 1, Len(ts) - 1)), ts[Len(ts)])

\* mutant of KeyMissing: the existence check of the key file is left out
KeyMissingUnchecked(stem, keyfiles) == FALSE

\* a matched manifest without its key file: find_tasks raises FileNotFoundError
KeyMissing(stem, keyfiles) == stem \notin keyfiles

\* the loop of find_tasks over glob.glob(...), in the order the glob lists
RECURSIVE Scan(_, _, _)
Scan(order, keyfiles, acc) ==
    IF Len(order) = 0 THEN [ raised |-> FALSE, tasks |-> acc ]
    ELSE LET f == Head(order) IN
         IF ~Matches(f) THEN Scan(Tail(order), keyfiles, acc)
         ELSE IF KeyMissing(f, keyfiles) THEN [ raised |-> TRUE, tasks |-> << >> ]
         ELSE Scan(Tail(order), keyfiles, Append(acc, Task(f)))

\* lines 21-47: the loop runs once, then its result is sorted
find_tasks(order, keyfiles) ==
    CHOOSE res \in { IF r.raised THEN r
                     ELSE [ raised |-> FALSE, tasks |-> Sorted(r.tasks) ] :
                     r \in { Scan(order, keyfiles, << >>) } } : TRUE

\* the orders in which glob may list a set of files
Orders(S) ==
    { o \in [1..Cardinality(S) -> S] : \A x, y \in DOMAIN o : x # y => o[x] # o[y] }


(***************************************************************************)
(* The file system below base_dir.  A directory maps the index in a file   *)
(* name segment<i>.ts to the file's content.                               *)
(***************************************************************************)
Idx == 0..((IF RunSegs > MaxSegs THEN RunSegs ELSE MaxSegs) - 1)

Dirs ==
    UNION { { downloaded_dir(version(s)), decrypted_dir(version(s)) } :
            s \in { m \in Stems : Matches(m) } }

NoFile == [ t |-> << >>, p |-> -1, key |-> << >> ]

\* a file left in base_dir by an earlier run
Stale == [ t |-> <<"stale">>, p |-> -1, key |-> << >> ]

\* what openssl leaves in -out when it fails after opening it
Partial == [ t |-> <<"partial">>, p |-> -1, key |-> << >> ]

\* response.content of the url at position p of the manifest of task t
Bytes(t, p) == [ t |-> t.playlist, p |-> p, key |-> << >> ]

\* openssl aes-128-cbc -d of content c with the key file of task t
Dec(c, t) == [ c EXCEPT !.key = t.key ]

EmptyFs == [ d \in Dirs |-> [ x \in Idx |-> NoFile ] ]

StaleFs == [ d \in Dirs |-> [ x \in Idx |-> Stale ] ]

\* ts_file of download_segment(task, i, url): directory and index of the file
ts_file(t, ix) == << t.downloaded_dir, ix >>

DigitChar(d) == CHOOSE c \in Digits : DigitVal(c) = d

\* the decimal digits of a natural number, as an f-string formats it
RECURSIVE Str(_)
Str(n) ==
    IF n < 10 THEN << DigitChar(n) >>
    ELSE Append(Str(n \div 10), DigitChar(n % 10))

\* f"segment{i}.ts"
SegName(ix) == <<"segment">> \o Str(ix) \o <<".ts">>

\* mutant of SegmentKey: the key is the text of the index, compared as text
\* (for indices of at most two digits)
SegmentKeyText(name) ==
    LET d == SubSeq(name, 2, Len(name) - 1)
    IN  10 * DigitVal(d[1]) + (IF Len(d) > 1 THEN DigitVal(d[2]) ELSE 0)

\* key=lambda x: int(os.path.basename(x).split("segment")[1].split(".")[0])
SegmentKey(name) == ToInt(SubSeq(name, 2, Len(name) - 1))

\* sorted(glob(...), key=int(...)): insertion of name x into an ascending list
RECURSIVE InsertIdx(_, _)
InsertIdx(sorted, x) ==
    IF Len(sorted) = 0 THEN << x >>
    ELSE IF SegmentKey(x) < SegmentKey(sorted[Len(sorted)])
         THEN Append(InsertIdx(SubSeq(sorted, 1, Len(sorted) - 1), x),
                     sorted[Len(sorted)])
         ELSE Append(sorted, x)

\* the sorted prefix is computed once and the last file inserted into it
RECURSIVE SortByIndex(_)
SortByIndex(files) ==
    IF Len(files) = 0 THEN << >>
    ELSE CHOOSE res \in { InsertIdx(prefix, files[Len(files)]) :
                          prefix \in { SortByIndex(SubSeq(files, 1, Len(files) - 1)) } } :
             TRUE

VARIABLES
    input_exists,   \* os.path.exists(input_dir)
    manifests,      \* stems of the *.m3u8 files of input_dir
    keyfiles,       \* stems of the *.bin files of input_dir
    base_exists,    \* os.path.exists(base_dir)
    fs,             \* the directories below base_dir
    pc,             \* position of main
    fatal,          \* the run-level error raised in main, or "none"
    tasks,          \* the list returned by find_tasks
    k,              \* position in tasks of the task of the for loop (1-based)
    segments,       \* number of segment urls parse_m3u8 returned
    submitted,      \* number of futures created by the list comprehension
    queue,          \* work items of the executor not yet taken by a worker
    running,        \* work items a worker thread is executing
    num_threads,    \* worker threads of the executor
    futures,        \* state of the future of each segment of the task
    i,              \* loop variable of the decrypt loop
    filelist,       \* the lines written to filelist.txt (names of the files)
    listing,        \* a list returned by glob.glob(decrypted_dir/*.ts) (SpecList)
    output_files,   \* output_files of main
    stdout,         \* the lines main has printed about tasks and outputs
    hist            \* history: one record per call of process_task

vars ==
    << input_exists, manifests, keyfiles, base_exists, fs, pc, fatal, tasks, k,
       segments, submitted, queue, running, num_threads, futures, i, filelist,
       listing, output_files, stdout, hist >>

\* what the program reads and never writes
env == << input_exists, manifests, keyfiles, listing >>

pool == << submitted, queue, running, num_threads, futures >>

NoFutures == [ x \in Idx |-> "none" ]

NewHist(t) ==
    [ task         |-> t.playlist,
      iv           |-> TRUE,
      nsegs        |-> 0,
      fetch_ok     |-> {},
      fetch_failed |-> {},
      dec_log      |-> << >>,
      dec_failed   |-> -1,
      muxed        |-> FALSE,
      mux_rc       |-> -1,
      result       |-> "running" ]

\* the input directories of Spec: any files of Stems
RunInputs == { S \in SUBSET Stems : Cardinality(S) <= MaxManifests }

\* the input directories of SpecPool: two manifests of the same version
PoolInputs == SUBSET { <<"a", "1", ".", "9">>, <<"b", "1", ".", "9">> }

InitWith(inputs) ==
    /\ input_exists \in BOOLEAN
    /\ manifests \in inputs
    /\ input_exists = FALSE => manifests = {}
    \* key files other than those of the manifests are never looked at
    /\ keyfiles \in SUBSET manifests
    /\ base_exists \in BOOLEAN
    /\ fs \in IF base_exists THEN { EmptyFs, StaleFs } ELSE { EmptyFs }
    /\ pc = "start"
    /\ fatal = "none"
    /\ tasks = << >>
    /\ k = 0
    /\ segments = 0
    /\ submitted = 0
    /\ queue = << >>
    /\ running = {}
    /\ num_threads = 0
    /\ futures = NoFutures
    /\ i = 0
    /\ filelist = << >>
    /\ listing = << >>
    /\ output_files = << >>
    /\ stdout = << >>
    /\ hist = << >>

Init == InitWith(RunInputs)

InitPool == InitWith(PoolInputs)

(***************************************************************************)
(* main                                                                    *)
(***************************************************************************)
\* lines 155-160: the input directory check, then rmtree and mkdir of base_dir
Start ==
    /\ pc = "start"
    /\ IF ~input_exists
       THEN /\ fatal' = "noinput"
            /\ pc' = "cleanup"
            /\ UNCHANGED << base_exists, fs >>
       ELSE /\ base_exists' = TRUE
            /\ fs' = EmptyFs
            /\ pc' = "discover"
            /\ UNCHANGED fatal
    /\ UNCHANGED << env, stdout, tasks, k, segments, pool, i, filelist, output_files, hist >>

\* lines 162-164: find_tasks() and the empty check
Discover ==
    /\ pc = "discover"
    /\ \E order \in Orders(manifests) :
          LET r == find_tasks(order, keyfiles) IN
          IF r.raised
          THEN fatal' = "nokey" /\ pc' = "cleanup" /\ UNCHANGED << tasks, k >>
          ELSE IF r.tasks = << >>
          THEN fatal' = "notasks" /\ pc' = "cleanup" /\ UNCHANGED << tasks, k >>
          ELSE tasks' = r.tasks /\ k' = 1 /\ pc' = "loop" /\ UNCHANGED fatal
    /\ UNCHANGED << env, stdout, base_exists, fs, segments, pool, i, filelist,
                    output_files, hist >>

\* str(e) of the exception that left the call with history record rec
ErrorOf(rec) ==
    IF ~rec.iv THEN "IV not found"
    ELSE IF rec.dec_failed # -1 THEN "openssl returned non-zero exit status"
    ELSE "ffmpeg returned non-zero exit status"

\* line 173: "Failed to process <base_name> <version>: <e>"
FailureLine(rec) ==
    [ kind |-> "failed", name |-> Task(rec.task).output_file, error |-> ErrorOf(rec) ]

\* line 176: "Successfully created files:"
SummaryHeader == [ kind |-> "summary", name |-> << >>, error |-> "" ]

\* lines 177-180: one line per output file; a file for which ffmpeg returned
\* zero exists
SummaryLines ==
    [ j \in 1..Len(output_files) |->
        [ kind |-> "file", name |-> output_files[j], error |-> "" ] ]

\* mutant of TaskFailed: except Exception: pass
TaskFailedSilent(h) ==
    /\ hist' = [ h EXCEPT ![Len(h)].result = "failed" ]
    /\ stdout' = stdout
    /\ k' = k + 1
    /\ pc' = "loop"

\* mutant of TaskFailed: the exception of a task ends the for loop
TaskFailedAbort(h) ==
    /\ hist' = [ h EXCEPT ![Len(h)].result = "failed" ]
    /\ stdout' = Append(stdout, FailureLine(h[Len(h)]))
    /\ k' = k
    /\ pc' = "summary"

\* lines 172-173: the except clause of the for loop, given the history h of
\* the call that raised
TaskFailed(h) ==
    /\ hist' = [ h EXCEPT ![Len(h)].result = "failed" ]
    /\ stdout' = Append(stdout, FailureLine(h[Len(h)]))
    /\ k' = k + 1
    /\ pc' = "loop"

\* mutant of RaisesNoIV: parse_m3u8 returns iv = None to its caller
RaisesNoIVNever(hasIV) == FALSE

\* lines 67-68 of parse_m3u8: no IV attribute was found, ValueError
RaisesNoIV(hasIV) == ~hasIV

\* lines 168-170 and 82-94: the next task; process_task creates its
\* directories, reads the key and parses the playlist, which has an IV or not
\* and at most maxn segment lines
BeginTask(maxn) ==
    /\ pc = "loop"
    /\ k <= Len(tasks)
    /\ \E hasIV \in BOOLEAN, n \in 0..maxn :
          LET h == Append(hist, [ NewHist(tasks[k]) EXCEPT !.iv = hasIV ]) IN
          IF RaisesNoIV(hasIV)
          THEN /\ TaskFailed(h)
               /\ UNCHANGED << segments, pool, i, filelist >>
          ELSE /\ hist' = [ h EXCEPT ![Len(h)].nsegs = n ]
               /\ segments' = n
               /\ submitted' = 0
               /\ queue' = << >>
               /\ running' = running
               /\ num_threads' = 0
               /\ futures' = NoFutures
               /\ i' = 0
               /\ filelist' = << >>
               /\ pc' = "download"
               /\ UNCHANGED << k, stdout >>
    /\ UNCHANGED << env, base_exists, fs, fatal, tasks, output_files >>

\* the for loop of main is exhausted
EndLoop ==
    /\ pc = "loop"
    /\ k > Len(tasks)
    /\ pc' = "summary"
    /\ UNCHANGED << env, stdout, base_exists, fs, fatal, tasks, k, segments, pool, i,
                    filelist, output_files, hist >>

\* lines 176-180: the summary of the produced files
Summary ==
    /\ pc = "summary"
    /\ stdout' = Append(stdout, SummaryHeader) \o SummaryLines
    /\ pc' = "cleanup"
    /\ UNCHANGED << env, base_exists, fs, fatal, tasks, k, segments, pool, i,
                    filelist, output_files, hist >>

\* mutant of FinalCleanup: the cleanup is the last statement of the try body
\* and is skipped when main raises
FinalCleanupInTry ==
    /\ pc = "cleanup"
    /\ base_exists' = IF fatal = "none" THEN FALSE ELSE base_exists
    /\ fs' = IF fatal = "none" THEN EmptyFs ELSE fs
    /\ pc' = "done"
    /\ UNCHANGED << env, stdout, fatal, tasks, k, segments, pool, i, filelist,
                    output_files, hist >>

\* lines 182-188: the finally clause of main
FinalCleanup ==
    /\ pc = "cleanup"
    /\ base_exists' = FALSE
    /\ fs' = EmptyFs
    /\ pc' = "done"
    /\ UNCHANGED << env, stdout, fatal, tasks, k, segments, pool, i, filelist,
                    output_files, hist >>

(***************************************************************************)
(* process_task: the download phase.  A work item is one call              *)
(* download_segment(task, i, url) handed to the executor.                  *)
(***************************************************************************)
\* mutant of SpawnAllowed: one thread per submitted call
SpawnAlways(n) == TRUE

\* ThreadPoolExecutor._adjust_thread_count: a new worker thread is started
\* only while there are fewer than max_workers
SpawnAllowed(n) == n < max_workers

\* mutant of EnumIndex: enumerate(segments, 1)
EnumIndexFromOne(o) == o + 1

\* line 100: the i that enumerate(segments) pairs with the url at offset o of
\* the list (the list starts at offset 0)
EnumIndex(o) == o

\* lines 99-100: executor.submit for the next element of enumerate(segments);
\* futures are told apart by the offset of their url
Submit ==
    /\ pc = "download"
    /\ submitted < segments
    /\ queue' = Append(queue, [ task |-> k, i |-> EnumIndex(submitted),
                                url |-> submitted ])
    /\ futures' = [ futures EXCEPT ![submitted] = "pending" ]
    /\ num_threads' = IF SpawnAllowed(num_threads) THEN num_threads + 1
                      ELSE num_threads
    /\ submitted' = submitted + 1
    /\ UNCHANGED << env, stdout, base_exists, fs, pc, fatal, tasks, k, segments, running,
                    i, filelist, output_files, hist >>

\* a worker thread without work takes the oldest work item
StartFetch ==
    /\ queue # << >>
    /\ Cardinality(running) < num_threads
    /\ running' = running \cup { Head(queue) }
    /\ queue' = Tail(queue)
    /\ futures' = IF Head(queue).task = k
                  THEN [ futures EXCEPT ![Head(queue).url] = "running" ]
                  ELSE futures
    /\ UNCHANGED << env, stdout, base_exists, fs, pc, fatal, tasks, k, segments,
                    submitted, num_threads, i, filelist, output_files, hist >>

\* mutant of FetchTarget: the file is numbered by the order of arrival
FetchTargetArrival(w) ==
    << tasks[w.task].downloaded_dir,
       Cardinality(hist[w.task].fetch_ok \cup hist[w.task].fetch_failed) >>

\* the file download_segment opens for work item w
FetchTarget(w) == ts_file(tasks[w.task], w.i)

\* lines 75-78: the fetch of work item w succeeds and its file is written
FetchOk(w) ==
    /\ w \in running
    /\ running' = running \ { w }
    /\ fs' = [ fs EXCEPT ![FetchTarget(w)[1]][FetchTarget(w)[2]] =
                             Bytes(tasks[w.task], w.url) ]
    /\ futures' = IF w.task = k THEN [ futures EXCEPT ![w.url] = "ok" ] ELSE futures
    /\ hist' = [ hist EXCEPT ![w.task].fetch_ok = @ \cup { w.i } ]
    /\ UNCHANGED << env, stdout, base_exists, pc, fatal, tasks, k, segments, submitted,
                    queue, num_threads, i, filelist, output_files >>

\* mutant of FetchFail: the first failure cancels the calls still queued
FetchFailCancel(w) ==
    /\ w \in running
    /\ running' = running \ { w }
    /\ queue' = << >>
    /\ futures' = IF w.task = k THEN [ futures EXCEPT ![w.url] = "failed" ] ELSE futures
    /\ hist' = [ hist EXCEPT ![w.task].fetch_failed = @ \cup { w.i } ]
    /\ UNCHANGED << env, stdout, base_exists, fs, pc, fatal, tasks, k, segments,
                    submitted, num_threads, i, filelist, output_files >>

\* lines 75-76 and 103-106: requests.get or raise_for_status raises; the
\* exception is stored in the future and printed by the as_completed loop
FetchFail(w) ==
    /\ w \in running
    /\ running' = running \ { w }
    /\ futures' = IF w.task = k THEN [ futures EXCEPT ![w.url] = "failed" ] ELSE futures
    /\ hist' = [ hist EXCEPT ![w.task].fetch_failed = @ \cup { w.i } ]
    /\ UNCHANGED << env, stdout, base_exists, fs, pc, fatal, tasks, k, segments,
                    submitted, queue, num_threads, i, filelist, output_files >>

\* mutant of AllDone: the with block is left only when every fetch succeeded
AllDoneOnlyOk == \A x \in 0..(segments - 1) : futures[x] = "ok"

\* mutant of AllDone: the executor is shut down with wait=False and the
\* futures are not awaited
AllDoneNoWait == TRUE

\* the as_completed loop has seen every future and the with block has joined
\* the workers (shutdown(wait=True))
AllDone == \A x \in 0..(segments - 1) : futures[x] \in { "ok", "failed" }

\* lines 102-108: leave the with block
Join ==
    /\ pc = "download"
    /\ submitted = segments
    /\ AllDone
    /\ num_threads' = 0
    /\ i' = 0
    /\ pc' = "decrypt"
    /\ UNCHANGED << env, stdout, base_exists, fs, fatal, tasks, k, segments, submitted,
                    queue, running, futures, filelist, output_files, hist >>

(***************************************************************************)
(* process_task: decryption, the file list and the muxer.                  *)
(***************************************************************************)
\* lines 110-121: openssl decrypts segment i
DecryptOk ==
    /\ pc = "decrypt"
    /\ i < segments
    /\ fs[tasks[k].downloaded_dir][i] # NoFile
    /\ fs' = [ fs EXCEPT ![tasks[k].decrypted_dir][i] =
                             Dec(fs[tasks[k].downloaded_dir][i], tasks[k]) ]
    /\ hist' = [ hist EXCEPT ![k].dec_log = Append(@, i) ]
    /\ i' = i + 1
    /\ UNCHANGED << env, stdout, base_exists, pc, fatal, tasks, k, segments, pool,
                    filelist, output_files >>

\* mutant of DecryptFail: check=True is left out, the loop goes on
DecryptFailIgnored ==
    /\ pc = "decrypt"
    /\ i < segments
    /\ hist' = [ hist EXCEPT ![k].dec_log = Append(@, i), ![k].dec_failed = i ]
    /\ i' = i + 1
    /\ UNCHANGED << env, stdout, base_exists, fs, pc, fatal, tasks, k, segments, pool,
                    filelist, output_files >>

\* lines 114-121 with check=True: openssl returns non-zero (always when the
\* input file is missing), CalledProcessError leaves process_task
DecryptFail ==
    /\ pc = "decrypt"
    /\ i < segments
    /\ \E wrote \in BOOLEAN :
          /\ wrote => fs[tasks[k].downloaded_dir][i] # NoFile
          /\ fs' = IF wrote
                   THEN [ fs EXCEPT ![tasks[k].decrypted_dir][i] = Partial ]
                   ELSE fs
    /\ TaskFailed([ hist EXCEPT ![k].dec_log = Append(@, i),
                                ![k].dec_failed = i ])
    /\ UNCHANGED << env, base_exists, fatal, tasks, segments, pool, i, filelist,
                    output_files >>

\* the files of glob.glob(decrypted_dir/*.ts)
Present(d) == { SegName(x) : x \in { y \in Idx : fs[d][y] # NoFile } }

\* lines 124-131: the file list, sorted by the index in the file name
MakeFileList ==
    /\ pc = "decrypt"
    /\ i = segments
    /\ \E order \in Orders(Present(tasks[k].decrypted_dir)) :
          filelist' = SortByIndex(order)
    /\ pc' = "mux"
    /\ UNCHANGED << env, stdout, base_exists, fs, fatal, tasks, k, segments, pool, i,
                    output_files, hist >>

\* lines 135-146 and 171: ffmpeg returns zero, process_task returns the output
\* file and main appends it
MuxOk ==
    /\ pc = "mux"
    /\ output_files' = Append(output_files, tasks[k].output_file)
    /\ hist' = [ hist EXCEPT ![k].muxed = TRUE, ![k].mux_rc = 0,
                              ![k].result = "produced" ]
    /\ k' = k + 1
    /\ pc' = "loop"
    /\ UNCHANGED << env, stdout, base_exists, fs, fatal, tasks, segments, pool, i,
                    filelist >>

\* mutant of MuxFail: check=True is left out, process_task returns the output
\* file whatever ffmpeg returned
MuxFailIgnored ==
    /\ pc = "mux"
    /\ output_files' = Append(output_files, tasks[k].output_file)
    /\ hist' = [ hist EXCEPT ![k].muxed = TRUE, ![k].mux_rc = 1,
                              ![k].result = "produced" ]
    /\ k' = k + 1
    /\ pc' = "loop"
    /\ UNCHANGED << env, stdout, base_exists, fs, fatal, tasks, segments, pool, i,
                    filelist >>

\* lines 135-144 with check=True: ffmpeg returns non-zero
MuxFail ==
    /\ pc = "mux"
    /\ TaskFailed([ hist EXCEPT ![k].muxed = TRUE, ![k].mux_rc = 1 ])
    /\ UNCHANGED << env, base_exists, fs, fatal, tasks, segments, pool, i,
                    filelist, output_files >>

Step(maxn) ==
    \/ Start
    \/ Discover
    \/ BeginTask(maxn)
    \/ EndLoop
    \/ Summary
    \/ FinalCleanup
    \/ Submit
    \/ StartFetch
    \/ \E w \in running : FetchOk(w)
    \/ \E w \in running : FetchFail(w)
    \/ Join
    \/ DecryptOk
    \/ DecryptFail
    \/ MakeFileList
    \/ MuxOk
    \/ MuxFail

Next == Step(RunSegs)

NextPool == Step(MaxSegs)

\* a run over any input directory, with short manifests
Spec == Init /\ [][Next]_vars

\* a run over at most two manifests, with manifests that saturate the pool
SpecPool == InitPool /\ [][NextPool]_vars

\* the runs of SpecPool in which the interpreter keeps scheduling a thread that
\* can take a step, and every fetch and every tool invocation terminates
\* (requests.get has timeout=60, subprocess.run returns)
SpecLive == InitPool /\ [][NextPool]_vars /\ WF_vars(NextPool)

(***************************************************************************)
(* The sort of the file list (lines 125-127) as a function of the list     *)
(* glob returns, for directories with indices that other runs do not reach.*)
(***************************************************************************)
ListNames == { SegName(1), SegName(2), SegName(3), SegName(10) }

InitList ==
    /\ listing \in UNION { Orders(S) : S \in SUBSET ListNames }
    /\ input_exists = TRUE
    /\ manifests = {}
    /\ keyfiles = {}
    /\ base_exists = TRUE
    /\ fs = EmptyFs
    /\ pc = "list"
    /\ fatal = "none"
    /\ tasks = << >>
    /\ k = 0
    /\ segments = 0
    /\ submitted = 0
    /\ queue = << >>
    /\ running = {}
    /\ num_threads = 0
    /\ futures = NoFutures
    /\ i = 0
    /\ filelist = << >>
    /\ output_files = << >>
    /\ stdout = << >>
    /\ hist = << >>

\* lines 125-127 applied to listing
SortListing ==
    /\ pc = "list"
    /\ filelist' = SortByIndex(listing)
    /\ pc' = "listed"
    /\ UNCHANGED << env, stdout, base_exists, fs, fatal, tasks, k, segments, pool,
                    i, output_files, hist >>

NextList == SortListing

SpecList == InitList /\ [][NextList]_vars

(***************************************************************************)
(* Properties                                                              *)
(***************************************************************************)
InTask == pc \in { "download", "decrypt", "mux" }

\* the index a file name segment<i>.ts carries
NameIndex(name) == ToInt(SubSeq(name, 2, Len(name) - 1))

\* dec_log of a call: the indices 0, 1, 2, ... in this order
Ascending(log) == \A j \in 1..Len(log) : log[j] = j - 1

\* C1: once main has finished, on every exit path (all tasks done, or a
\* run-level fatal error), base_dir does not exist, whether or not it
\* existed before the run.
C1_WorkspaceRemoved == pc = "done" => ~base_exists

\* C1 witness: main ended by the missing-key error, after it had created
\* base_dir
C1_Witness == pc = "done" /\ fatal = "nokey" /\ ~base_exists

\* C2: every discovered task is attempted exactly once, in the order of the
\* sorted list, whatever the outcome of the tasks before it.
C2_AllTasksAttempted ==
    /\ Len(hist) <= Len(tasks)
    /\ \A j \in 1..Len(hist) : hist[j].task = tasks[j].playlist
    /\ pc = "loop" => Len(hist) = k - 1
    /\ InTask => Len(hist) = k
    /\ (pc \in { "summary", "cleanup", "done" } /\ fatal = "none")
          => Len(hist) = Len(tasks)

\* C2 witness: the first of two tasks failed and the second was attempted
C2_Witness ==
    /\ pc = "summary"
    /\ Len(tasks) = 2
    /\ Len(hist) = 2
    /\ hist[1].result = "failed"
    /\ hist[2].result = "produced"

\* the run-level fatal conditions, stated on the input directory
FatalCondition ==
    \/ ~input_exists
    \/ \E m \in manifests : Matches(m) /\ m \notin keyfiles
    \/ \A m \in manifests : ~Matches(m)

\* C3: under a run-level fatal condition no task is processed: process_task
\* is never called, nothing is fetched, decrypted or concatenated.
C3_FatalStopsBeforeProcessing ==
    FatalCondition =>
        /\ hist = << >>
        /\ queue = << >>
        /\ running = {}
        /\ submitted = 0
        /\ output_files = << >>
        /\ fs \in { EmptyFs, StaleFs }
        /\ pc \in { "start", "discover", "cleanup", "done" }

\* C3 witness: a run that ended although one manifest had its key file,
\* because another one had none
C3_Witness ==
    /\ pc = "done"
    /\ \E m \in manifests : Matches(m) /\ m \in keyfiles
    /\ \E m \in manifests : Matches(m) /\ m \notin keyfiles

\* C4: a failed fetch cancels or skips no sibling: every submitted fetch is
\* queued, running or terminated, and when the download phase is left every
\* one of the N fetches has written its file or failed.
C4_NoSiblingCancelled ==
    /\ pc = "download" =>
          \A x \in 0..(submitted - 1) :
              \/ futures[x] \in { "ok", "failed" }
              \/ [ task |-> k, i |-> x, url |-> x ] \in running
              \/ \E q \in 1..Len(queue) : queue[q] = [ task |-> k, i |-> x, url |-> x ]
    /\ pc \in { "decrypt", "mux" } =>
          /\ hist[k].fetch_ok \cup hist[k].fetch_failed = 0..(segments - 1)
          /\ hist[k].fetch_ok \cap hist[k].fetch_failed = {}

\* C4 witness: the first of three fetches failed, the other two wrote their
\* files
C4_Witness ==
    /\ pc = "decrypt"
    /\ segments = 3
    /\ hist[k].fetch_failed = { 0 }
    /\ hist[k].fetch_ok = { 1, 2 }

\* C5: a task with at least one failed segment fetch is never recorded as
\* produced.
C5_FetchFailureFailsTask ==
    \A j \in 1..Len(hist) :
        hist[j].fetch_failed # {} => hist[j].result # "produced"

\* C6: two distinct tasks of a run have different download directories and
\* different decrypt directories.
C6_DirsExclusive ==
    \A a, b \in 1..Len(tasks) :
        a # b => /\ tasks[a].downloaded_dir # tasks[b].downloaded_dir
                 /\ tasks[a].decrypted_dir # tasks[b].decrypted_dir

\* C7: the index of a segment is its manifest position: the file written by
\* the fetch of position x holds the bytes of the x-th url whatever the order
\* of completion, decryption goes through the indices in manifest order, and
\* the file list is ascending by index.
C7_IndexIsManifestPosition ==
    /\ InTask =>
          \A x \in hist[k].fetch_ok :
              fs[tasks[k].downloaded_dir][x] = Bytes(tasks[k], x)
    /\ \A j \in 1..Len(hist) : Ascending(hist[j].dec_log)
    /\ pc = "mux" =>
          \A a, b \in 1..Len(filelist) :
              a < b => NameIndex(filelist[a]) < NameIndex(filelist[b])

\* C7 witness: the fetch of position 1 has written its file while the fetch
\* of position 0 is still running
C7_Witness ==
    /\ pc = "download"
    /\ 1 \in hist[k].fetch_ok
    /\ futures[0] = "running"

\* C8: at most max_workers fetches are in flight, and all of them belong to
\* the task being processed, during its download phase.
C8_BoundedPoolPerTask ==
    /\ Cardinality(running) <= max_workers
    /\ \A w \in running : w.task = k /\ pc = "download"

\* C8 witness: the pool is saturated and a submitted fetch waits
C8_Witness ==
    /\ Cardinality(running) = max_workers
    /\ queue # << >>

\* versions compared component-wise as integers
VersionLE(v, w) ==
    LET a == Split(v)
        b == Split(w)
    IN  \/ ToInt(a[1]) < ToInt(b[1])
        \/ ToInt(a[1]) = ToInt(b[1]) /\ ToInt(a[2]) <= ToInt(b[2])

\* C9: when find_tasks returns, its result holds exactly one task per
\* manifest that matches <base><digits>.<digits> and has its key file, none
\* for a manifest that does not match, sorted ascending by version as
\* integers.
C9_DiscoveryResult ==
    (pc \notin { "start", "discover" } /\ fatal = "none") =>
        LET valid == { m \in manifests : Matches(m) /\ m \in keyfiles } IN
        /\ Len(tasks) = Cardinality(valid)
        /\ { tasks[j].playlist : j \in 1..Len(tasks) } = valid
        /\ \A j \in 1..Len(tasks) :
              tasks[j].base_name \o tasks[j].version = tasks[j].playlist
        /\ \A a, b \in 1..Len(tasks) :
              a < b => VersionLE(tasks[a].version, tasks[b].version)

\* C9 witness: version 1.9 was sorted before version 1.10
C9_Witness ==
    /\ Len(tasks) = 2
    /\ tasks[1].version = <<"1", ".", "9">>
    /\ tasks[2].version = <<"1", ".", "1", "0">>

\* C10: decryption is sequential in ascending index, and after the
\* decryption of a segment failed no further segment is decrypted, the muxer
\* is not invoked and the output file is not recorded.
C10_DecryptFailureIsFatal ==
    \A j \in 1..Len(hist) :
        /\ Ascending(hist[j].dec_log)
        /\ hist[j].dec_failed # -1 =>
              /\ hist[j].dec_log[Len(hist[j].dec_log)] = hist[j].dec_failed
              /\ ~hist[j].muxed
              /\ hist[j].result = "failed"
              /\ \A o \in 1..Len(output_files) :
                    output_files[o] # tasks[j].output_file

\* C10 witness: segment 0 was decrypted, segment 1 failed although its file
\* was there, and the next task was attempted
C10_Witness ==
    /\ Len(hist) = 2
    /\ hist[1].dec_failed = 1
    /\ hist[1].fetch_ok = { 0, 1 }

\* C11: a task whose manifest has no IV attribute fails before any of its
\* segments is fetched, decrypted or concatenated, and the tasks after it
\* are still attempted.
C11_NoIVFailsTaskOnly ==
    /\ \A j \in 1..Len(hist) :
          ~hist[j].iv =>
              /\ hist[j].result = "failed"
              /\ hist[j].fetch_ok = {} /\ hist[j].fetch_failed = {}
              /\ hist[j].dec_log = << >>
              /\ ~hist[j].muxed
              /\ \A w \in running : w.task # j
              /\ \A q \in 1..Len(queue) : queue[q].task # j
              /\ \A o \in 1..Len(output_files) :
                    output_files[o] # tasks[j].output_file
    /\ (pc \in { "summary", "cleanup", "done" } /\ fatal = "none")
          => Len(hist) = Len(tasks)

\* C11 witness: the first task had no IV, the second one was processed to
\* its output file
C11_Witness ==
    /\ Len(hist) = 2
    /\ ~hist[1].iv
    /\ hist[2].result = "produced"

\* the position of the header of the final summary in stdout, 0 before it
HeaderAt ==
    IF \E q \in 1..Len(stdout) : stdout[q] = SummaryHeader
    THEN CHOOSE q \in 1..Len(stdout) : stdout[q] = SummaryHeader
    ELSE 0

\* the final summary has a line of this kind for the task of this name
InSummary(kind, name) ==
    \E q \in (HeaderAt + 1)..Len(stdout) :
        HeaderAt > 0 /\ stdout[q].kind = kind /\ stdout[q].name = name

\* a failure line for the task of this name was printed before the summary
FailurePrinted(name) ==
    \E q \in 1..Len(stdout) :
        /\ HeaderAt = 0 \/ q < HeaderAt
        /\ stdout[q].kind = "failed"
        /\ stdout[q].name = name
        /\ stdout[q].error # ""

RunEnded == pc \in { "cleanup", "done" } /\ fatal = "none"

C13_ListSortedByIndex ==
    pc = "listed" =>
        /\ Len(filelist) = Len(listing)
        /\ { filelist[a] : a \in 1..Len(filelist) }
              = { listing[a] : a \in 1..Len(listing) }
        /\ \A a, b \in 1..Len(filelist) :
              a < b => NameIndex(filelist[a]) < NameIndex(filelist[b])

\* C13 witness: glob listed segment10, segment3, segment1, segment2 and the
\* file list is segment1, segment2, segment3, segment10
C13_Witness ==
    /\ pc = "listed"
    /\ listing = << SegName(10), SegName(3), SegName(1), SegName(2) >>
    /\ filelist = << SegName(1), SegName(2), SegName(3), SegName(10) >>

\* the output file of the j-th task was appended to output_files
Recorded(j) ==
    \E o \in 1..Len(output_files) : output_files[o] = tasks[j].output_file

\* C14: a task whose muxer returned non-zero is failed and has no output
\* recorded; an output is recorded for a task only when openssl returned zero
\* for every segment of its manifest and the muxer returned zero.
C14_OutputOnlyAfterCleanMux ==
    \A j \in 1..Len(hist) :
        /\ hist[j].mux_rc = 1 =>
              hist[j].result = "failed" /\ ~Recorded(j)
        /\ Recorded(j) =>
              /\ hist[j].mux_rc = 0
              /\ hist[j].dec_failed = -1
              /\ hist[j].dec_log = [ x \in 1..hist[j].nsegs |-> x - 1 ]

\* C14 witness: the muxer failed for a first task with two decrypted segments
\* and returned zero for a second one
C14_Witness ==
    /\ Len(hist) = 2
    /\ hist[1].mux_rc = 1 /\ Len(hist[1].dec_log) = 2 /\ hist[1].dec_failed = -1
    /\ hist[2].mux_rc = 0 /\ Recorded(2) /\ hist[2].nsegs = 2

\* C15 as stated: segments are 1-indexed, the file segment<x>.ts holds the
\* bytes of the url at position x counted from 1 (offset x - 1 of the list).
C15_OneIndexed ==
    \A d \in Dirs, x \in Idx : fs[d][x].p >= 0 => x = fs[d][x].p + 1

\* C15 amended: segments are 0-indexed, the file segment<x>.ts of a download
\* directory and of a decrypt directory holds the bytes of the url at offset x
\* of the list: the first url has index 0, the url at position p has p - 1.
C15_ZeroIndexed ==
    \A d \in Dirs, x \in Idx : fs[d][x].p >= 0 => x = fs[d][x].p

\* C15 witness: both segments of a task were fetched and decrypted
C15_Witness ==
    /\ pc = "mux"
    /\ \A x \in { 0, 1 } :
          /\ fs[tasks[k].downloaded_dir][x] = Bytes(tasks[k], x)
          /\ fs[tasks[k].decrypted_dir][x] = Dec(Bytes(tasks[k], x), tasks[k])

\* C16: the stages of a task do not overlap: once openssl has been started for
\* a task, or the muxer invoked, every fetch submitted for it has written its
\* file or failed and none is queued or running; the muxer is invoked only
\* after openssl has gone through every segment of the task.
C16_StagesDoNotOverlap ==
    /\ \A j \in 1..Len(hist) :
          /\ (hist[j].dec_log # << >> \/ hist[j].muxed) =>
                /\ hist[j].fetch_ok \cup hist[j].fetch_failed
                      = 0..(hist[j].nsegs - 1)
                /\ \A w \in running : w.task # j
                /\ \A q \in 1..Len(queue) : queue[q].task # j
          /\ hist[j].muxed =>
                /\ hist[j].dec_log = [ x \in 1..hist[j].nsegs |-> x - 1 ]
                /\ hist[j].dec_failed = -1
    /\ pc \in { "decrypt", "mux" } =>
          /\ running = {} /\ queue = << >>
          /\ submitted = segments
          /\ \A x \in 0..(segments - 1) : futures[x] \in { "ok", "failed" }

\* C16 witness: the muxer is about to run for a task of three segments, all
\* fetched and decrypted
C16_Witness ==
    /\ pc = "mux"
    /\ segments = 3
    /\ hist[k].fetch_ok = { 0, 1, 2 }
    /\ hist[k].dec_log = << 0, 1, 2 >>

\* C17: when process_task has returned the output file of a task with N
\* segments, the file list written for it is segment0.ts .. segment<N-1>.ts in
\* this order and every file it names was decrypted from a segment of that
\* task.
C17_ListIsOwnSegments ==
    (pc = "loop" /\ k > 1 /\ Len(hist) = k - 1 /\ hist[k - 1].result = "produced")
        =>
        /\ filelist = [ x \in 1..hist[k - 1].nsegs |-> SegName(x - 1) ]
        /\ \A a \in 1..Len(filelist) :
              fs[tasks[k - 1].decrypted_dir][NameIndex(filelist[a])].t
                  = tasks[k - 1].playlist

\* main has returned after its finally clause: the workspace is removed, every
\* discovered task was attempted unless discovery raised, and every attempted
\* task is produced or failed
Finished ==
    /\ pc = "done"
    /\ ~base_exists
    /\ fatal = "none" => Len(hist) = Len(tasks)
    /\ \A j \in 1..Len(hist) : hist[j].result \in { "produced", "failed" }

\* C18: when every fetch and every tool invocation terminates, every run of
\* main eventually finishes: each discovered task reaches the outcome produced
\* or failed and the final cleanup is performed, whatever fails.
C18_RunTerminates == <>Finished

\* C18 witness: a finished run of two tasks, the first with a failed fetch and
\* a failed openssl, the second produced
C18_Witness ==
    /\ Finished
    /\ Len(hist) = 2
    /\ hist[1].fetch_failed # {} /\ hist[1].dec_failed >= 0
    /\ hist[2].result = "produced"

=============================================================================
